---- MODULE Spec2Model ----
(***************************************************************************)
(* A model of scripts/notes_update_refs.py: the reference-block generator, *)
(* the block inserter, the frontmatter round trip, the per-file processor  *)
(* and the batch runner over a folder of Markdown notes.                   *)
(*                                                                         *)
(* Text is a sequence of tokens.  A token is a record [t, a]: t is the     *)
(* kind of the piece of text and a its arguments (a sequence of strings).  *)
(* The two marker comments, the "---" delimiter and a newline are atomic   *)
(* tokens, so substring tests of the code are subsequence tests here.      *)
(* File system calls succeed whenever the paths they need exist; I/O       *)
(* errors of the environment (full disk, permissions) are not modelled.    *)
(***************************************************************************)
EXTENDS Integers, Sequences, FiniteSets, TLC

VARIABLES
    fs,            \* the folder: path -> [id, text]
    bibOnDisk,     \* names of the .bib files that exist in the folder
    dry_run,       \* args.dry_run
    inline_style,  \* args.style_inline
    md_paths,      \* main: the enumerated, sorted list of paths
    idx,           \* main: position of the for loop in md_paths
    changed,       \* main: the counter of changed files
    pc,            \* position of main / process_file
    loc,           \* locals of the running process_file call
    clock,         \* the wall clock read by datetime.now()
    bibCache,      \* _BIB_CACHE: the bib paths already loaded
    reports,       \* the lines printed by main, one per file
    log,           \* the file system effects performed so far, in order
    fs0,           \* the folder as it was when the run started
    args,          \* pure-function harness: the inputs of the call
    ret,           \* pure-function harness: the results
    ppc            \* pure-function harness: position

vars == <<fs, bibOnDisk, dry_run, inline_style, md_paths, idx, changed, pc, loc,
          clock, bibCache, reports, log, fs0, args, ret, ppc>>

batchVars == <<fs, bibOnDisk, dry_run, inline_style, md_paths, idx, changed, pc,
               loc, clock, bibCache, reports, log, fs0>>

pureVars == <<args, ret, ppc>>

-----------------------------------------------------------------------------
(* Bounds of the model *)

\* how many Markdown files the folder holds at most
MaxFiles == 2

\* longest body text drawn for the block inserter
MaxBody == 4

\* longest citekeys list drawn for the block generator
MaxKeys == 2

-----------------------------------------------------------------------------
(* Tokens and generic string operations *)

Tok(t) == [t |-> t, a |-> <<>>]

NL == Tok("nl")

BEGIN_MARK == Tok("BEGIN")

END_MARK == Tok("END")

\* the "---" frontmatter delimiter
FM_MARK == Tok("---")

\* str.strip() / str.rstrip() remove whitespace; newline is the whitespace here
IsSpace(tok) == tok.t = "nl"

Contains(s, tok) == \E i \in 1..Len(s) : s[i] = tok

StartsWith(s, p) == Len(s) >= Len(p) /\ SubSeq(s, 1, Len(p)) = p

EndsWith(s, p) == Len(s) >= Len(p) /\ SubSeq(s, Len(s) - Len(p) + 1, Len(s)) = p

\* index of the first occurrence of tok in s after position from, 0 if none
FirstIndexAfter(s, tok, from) ==
    IF \E i \in (from + 1)..Len(s) : s[i] = tok
    THEN CHOOSE i \in (from + 1)..Len(s) :
            s[i] = tok /\ \A j \in (from + 1)..(i - 1) : s[j] # tok
    ELSE 0

RECURSIVE LStrip(_)
LStrip(s) == IF s # <<>> /\ IsSpace(Head(s)) THEN LStrip(Tail(s)) ELSE s

RECURSIVE RStrip(_)
RStrip(s) ==
    IF s # <<>> /\ IsSpace(s[Len(s)]) THEN RStrip(SubSeq(s, 1, Len(s) - 1)) ELSE s

Strip(s) == LStrip(RStrip(s))

\* "\n".join(lines)
RECURSIVE JoinLines(_)
JoinLines(lines) ==
    IF lines = <<>> THEN <<>>
    ELSE IF Len(lines) = 1 THEN lines[1]
    ELSE lines[1] \o <<NL>> \o JoinLines(Tail(lines))

\* all sequences over S of length at most n
BoundedSeq(S, n) == UNION {[1..k -> S] : k \in 0..n}

-----------------------------------------------------------------------------
(* Reference block generator *)

Keys == {"k1", "k2"}

Timestamps == {"t0", "t1"}

\* a bibliography entry is "plain", or "tex" when a field holds a backslash
\* sequence such as \n (as in \nabla) that survives into the rendered line
EntryKinds == {"plain", "tex"}

\* the two-character text backslash + n
ESC == Tok("esc")

\* the control character that backslash + n denotes in a replacement template
CTL == Tok("ctl")

\* one line: 1. <p id="KEY"> ... </p>
FormatReferenceHtml(key, entry) ==
    <<[t |-> "entry", a |-> <<key>>]>> \o (IF entry = "tex" THEN <<ESC>> ELSE <<>>)

BibGet(bib_map, k) == IF k \in DOMAIN bib_map THEN bib_map[k] ELSE "None"

IsMissing_Inverted(bib_map, k) == BibGet(bib_map, k) # "None"

\* "if not entry"
IsMissing(bib_map, k) == BibGet(bib_map, k) = "None"

\* the for loop over keys: st = [lines, missing]
RECURSIVE KeyLoop(_, _, _)
KeyLoop(keys, bib_map, st) ==
    IF keys = <<>> THEN st
    ELSE LET k == Head(keys) IN
         IF IsMissing(bib_map, k)
         THEN KeyLoop(Tail(keys), bib_map,
                      [st EXCEPT !.missing = Append(@, k)])
         ELSE KeyLoop(Tail(keys), bib_map,
                      [st EXCEPT !.lines =
                          @ \o <<FormatReferenceHtml(k, BibGet(bib_map, k)), <<>>>>])

\* the list "lines" just before it is joined
ReferenceLines(keys, bib_map, add_style, now) ==
    LET head == (IF add_style THEN <<<<Tok("style")>>, <<>>>> ELSE <<>>)
                \o <<<<Tok("hdr")>>, <<[t |-> "ts", a |-> <<now>>]>>>>
        st == KeyLoop(keys, bib_map, [lines |-> head, missing |-> <<>>])
    IN  IF st.missing # <<>>
        THEN Append(st.lines, <<[t |-> "note", a |-> st.missing]>>)
        ELSE st.lines

GenerateReferenceBlock(keys, bib_map, add_style, now) ==
    LET content == RStrip(JoinLines(ReferenceLines(keys, bib_map, add_style, now)))
                   \o <<NL>>
    IN  <<BEGIN_MARK, NL>> \o content \o <<NL, END_MARK, NL>>

-----------------------------------------------------------------------------
(* Block inserter *)

\* re's replacement template: backslash + n in the replacement becomes the
\* control character
ExpandTemplate(repl) ==
    [i \in 1..Len(repl) |-> IF repl[i] = ESC THEN CTL ELSE repl[i]]

\* pattern.sub(repl, md_text, count=1) for BEGIN.*?END with DOTALL: the
\* leftmost BEGIN that has an END after it, up to the first such END
RegexSubFirst(md_text, repl) ==
    LET i == FirstIndexAfter(md_text, BEGIN_MARK, 0)
        j == IF i = 0 THEN 0 ELSE FirstIndexAfter(md_text, END_MARK, i)
    IN  IF j = 0 THEN md_text
        ELSE SubSeq(md_text, 1, i - 1) \o ExpandTemplate(repl)
             \o SubSeq(md_text, j + 1, Len(md_text))

InsertOrReplaceReferenceBlock(md_text, new_block) ==
    IF Contains(md_text, BEGIN_MARK) /\ Contains(md_text, END_MARK)
    THEN RegexSubFirst(md_text, Strip(new_block))
    ELSE LET m1 == IF ~EndsWith(md_text, <<NL>>) THEN md_text \o <<NL>> ELSE md_text
             m2 == IF ~EndsWith(m1, <<NL, NL>>) THEN m1 \o <<NL>> ELSE m1
         IN  m2 \o new_block

-----------------------------------------------------------------------------
(* Frontmatter: a YAML line is the token [t |-> "yaml", a |-> <<style, key>>  *)
(* \o value], style being how the line is written ("plain" is the way        *)
(* yaml.safe_dump writes it, "dq" a double-quoted scalar); value is the list  *)
(* of scalars of the key, one for a scalar, several for a list.               *)

YamlLine(style, key, value) == [t |-> "yaml", a |-> <<style, key>> \o value]

IsYamlLine(tok) == tok.t = "yaml"

\* the mapping under construction, with key k set to v (a dict keeps the
\* position of the first insertion of a key)
DictSet(d, k, v) ==
    IF \E i \in 1..Len(d) : d[i].k = k
    THEN [i \in 1..Len(d) |-> IF d[i].k = k THEN [k |-> k, v |-> v] ELSE d[i]]
    ELSE Append(d, [k |-> k, v |-> v])

RECURSIVE SafeLoadLines(_, _)
SafeLoadLines(block, d) ==
    IF block = <<>> THEN d
    ELSE LET tok == Head(block) IN
         IF IsYamlLine(tok)
         THEN SafeLoadLines(Tail(block),
                            DictSet(d, tok.a[2], SubSeq(tok.a, 3, Len(tok.a))))
         ELSE SafeLoadLines(Tail(block), d)

\* yaml.safe_load parses a block of mapping lines and blank lines; anything
\* else between the delimiters is a YAMLError
YamlParses(block) == \A i \in 1..Len(block) : IsYamlLine(block[i]) \/ IsSpace(block[i])

SafeLoad(block) == SafeLoadLines(block, <<>>)

\* yaml.safe_dump(front, sort_keys=False).strip(): one plain line per key, in
\* the order of the mapping
SafeDump(front) ==
    IF front = <<>> THEN <<Tok("{}")>>
    ELSE Strip(JoinLines([i \in 1..Len(front) |->
                            <<YamlLine("plain", front[i].k, front[i].v)>>])
               \o <<NL>>)

\* front.get(key): the value, <<>> when the key is absent (None)
FrontGet(front, key) ==
    IF \E i \in 1..Len(front) : front[i].k = key
    THEN front[CHOOSE i \in 1..Len(front) : front[i].k = key].v
    ELSE <<>>

ExtractFrontmatter(md_text) ==
    IF ~StartsWith(md_text, <<FM_MARK>>)
    THEN [front |-> <<>>, body |-> md_text]
    ELSE LET j == FirstIndexAfter(md_text, FM_MARK, 1) IN
         IF j = 0 THEN [front |-> <<>>, body |-> md_text]
         ELSE LET yaml_block == SubSeq(md_text, 2, j - 1)
                  body == SubSeq(md_text, j + 1, Len(md_text))
              IN  IF YamlParses(yaml_block)
                  THEN [front |-> SafeLoad(yaml_block), body |-> body]
                  ELSE [front |-> <<>>, body |-> md_text]

RenderWithFrontmatter(front, body) ==
    <<FM_MARK, NL>> \o SafeDump(front) \o <<NL, FM_MARK>>
    \o (IF StartsWith(body, <<NL>>) THEN body ELSE <<NL>> \o body)

-----------------------------------------------------------------------------
(* File names: a path is [root, ext]; root is the file name stem as a list   *)
(* of pieces, a date piece standing for a prefix "YYYY-MM-DD-".              *)

DatePieces == {"2020-01-01-", "2025-09-28-"}

\* the frontmatter date values: a date is written as its prefix piece
DatePrefixFromFrontmatter(front_date) ==
    IF front_date = <<>> THEN <<>>
    ELSE IF front_date[1] \in DatePieces THEN <<front_date[1]>>
    ELSE <<>>

\* re.sub(r"^\d{4}-\d{2}-\d{2}-", "", root)
StripDatePrefix(root) ==
    IF root # <<>> /\ Head(root) \in DatePieces THEN Tail(root) ELSE root

NoPath == [root |-> <<>>, ext |-> "None"]

MakeBackupPath(path, front_date) ==
    LET fm_prefix == DatePrefixFromFrontmatter(front_date)
        slug == IF fm_prefix # <<>> /\ StartsWith(path.root, fm_prefix)
                THEN SubSeq(path.root, Len(fm_prefix) + 1, Len(path.root))
                ELSE StripDatePrefix(path.root)
    IN  [root |-> <<"tmp-">> \o slug, ext |-> "bak"]

ComputeTargetPath_NoSameNameCheck(path, front_date) ==
    LET slug == StripDatePrefix(path.root)
        prefix == DatePrefixFromFrontmatter(front_date)
    IN  IF prefix = <<>> THEN NoPath ELSE [root |-> prefix \o slug, ext |-> path.ext]

ComputeTargetPath(path, front_date) ==
    LET slug == StripDatePrefix(path.root)
        prefix == DatePrefixFromFrontmatter(front_date)
        new_name == [root |-> prefix \o slug, ext |-> path.ext]
    IN  IF prefix = <<>> THEN NoPath
        ELSE IF path = new_name THEN NoPath
        ELSE new_name

\* order of the pieces as strings: digits sort before letters
PieceRank(p) ==
    CASE p = "2020-01-01-" -> 1
      [] p = "2025-09-28-" -> 2
      [] p = "alpha" -> 3
      [] p = "beta" -> 4
      [] OTHER -> 5

\* ".markdown" sorts before ".md"
ExtRank(e) == IF e = "markdown" THEN 1 ELSE 2

RECURSIVE RootLess(_, _)
RootLess(r, s) ==
    IF r = <<>> \/ s = <<>> THEN FALSE
    ELSE IF Head(r) # Head(s) THEN PieceRank(Head(r)) < PieceRank(Head(s))
    ELSE RootLess(Tail(r), Tail(s))

\* string order of two file names of the folder; every root ends in a slug
\* piece, so no root is a proper prefix of another
PathLess(p, q) ==
    IF p.root # q.root THEN RootLess(p.root, q.root)
    ELSE ExtRank(p.ext) < ExtRank(q.ext)

RECURSIVE InsertSorted(_, _)
InsertSorted(p, s) ==
    IF s = <<>> THEN <<p>>
    ELSE IF PathLess(Head(s), p) THEN <<Head(s)>> \o InsertSorted(p, Tail(s))
    ELSE <<p>> \o s

RECURSIVE Sorted(_)
Sorted(s) == IF s = <<>> THEN <<>> ELSE InsertSorted(Head(s), Sorted(Tail(s)))

RECURSIVE SetToSeq(_)
SetToSeq(S) ==
    IF S = {} THEN <<>>
    ELSE LET x == CHOOSE y \in S : TRUE IN <<x>> \o SetToSeq(S \ {x})

\* glob.glob(os.path.join(folder, "*." + pattern))
GlobMatches(path, pattern) == path.ext = pattern

Glob(files, pattern) == SetToSeq({p \in DOMAIN files : GlobMatches(p, pattern)})

\* main: the sorted list of the *.md and *.markdown files
EnumerateMarkdown(files) == Sorted(Glob(files, "md") \o Glob(files, "markdown"))

-----------------------------------------------------------------------------
(* process_file: the values it computes, and its branches *)

\* the bibliography the bib file of the folder holds: k1 is defined, k2 is not
SampleBibMap == [k \in {"k1"} |-> "plain"]

\* the negation of "not bibfile or not keys"
HasFrontmatterData(bibfile, keys) == bibfile # <<>> /\ keys # <<>>

BibExists_Unchecked(bibfile, onDisk) == TRUE

\* os.path.exists(bib_path)
BibExists(bibfile, onDisk) == bibfile # <<>> /\ bibfile[1] \in onDisk

IsDryRun_Ignored(dry) == FALSE

\* "if dry_run:"
IsDryRun(dry) == dry

RenameAllowed_NoCheck(files, target) == TRUE

\* the negation of os.path.exists(target)
RenameAllowed(files, target) == target \notin DOMAIN files

\* lines 304-308 and 319-328
Computed(path, original, style, now) ==
    LET fb == ExtractFrontmatter(original)
        keys == FrontGet(fb.front, "citekeys")
        front_date == FrontGet(fb.front, "date")
        block == GenerateReferenceBlock(keys, SampleBibMap, style, now)
        updated_body == InsertOrReplaceReferenceBlock(fb.body, block)
    IN  [front_date |-> front_date,
         updated |-> RenderWithFrontmatter(fb.front, updated_body),
         target |-> ComputeTargetPath(path, front_date)]

EffectOrder_WriteFirst == <<"write", "backup", "rename">>

\* the order of the statements of lines 337-351: make_backup, write, rename
EffectOrder == <<"backup", "write", "rename">>

\* the statement that follows statement s, "rename" after the last one
StepAfter(s) ==
    LET i == CHOOSE k \in 1..Len(EffectOrder) : EffectOrder[k] = s
    IN  IF i < Len(EffectOrder) THEN EffectOrder[i + 1] ELSE "return"

NoLoc == [path |-> NoPath, id |-> 0, original |-> <<>>, front_date |-> <<>>,
          updated |-> <<>>, target |-> NoPath, backup |-> NoPath,
          result |-> FALSE, msg |-> "", entry |-> <<>>]

Earlier(a, b) == a = "t0" /\ b = "t1"

\* shutil.copyfile(src, dst)
CopyFile(files, src, dst) ==
    [p \in DOMAIN files \cup {dst} |->
        IF p = dst THEN [id |-> 0, text |-> files[src].text] ELSE files[p]]

\* open(path, "w").write(text)
WriteFile(files, path, text) == [files EXCEPT ![path].text = text]

\* os.rename(src, dst)
RenameFile(files, src, dst) ==
    [p \in (DOMAIN files \ {src}) \cup {dst} |->
        IF p = dst THEN files[src] ELSE files[p]]

BatchUnchanged == UNCHANGED <<bibOnDisk, dry_run, inline_style, fs0>>

\* lines 365-372
Main_Enumerate ==
    /\ pc = "start"
    /\ md_paths' = EnumerateMarkdown(fs)
    /\ idx' = 1
    /\ pc' = IF md_paths' = <<>> THEN "done" ELSE "file"
    /\ UNCHANGED <<fs, changed, loc, clock, bibCache, reports, log>>
    /\ BatchUnchanged /\ UNCHANGED pureVars

\* lines 301-302; a missing path raises FileNotFoundError out of main
ProcessFile_Open ==
    /\ pc = "file"
    /\ LET path == md_paths[idx] IN
       IF path \in DOMAIN fs
       THEN /\ loc' = [NoLoc EXCEPT !.path = path, !.id = fs[path].id,
                                     !.original = fs[path].text, !.entry = fs]
            /\ pc' = "parsed"
       ELSE /\ loc' = [NoLoc EXCEPT !.path = path]
            /\ pc' = "crashed"
    /\ UNCHANGED <<fs, md_paths, idx, changed, clock, bibCache, reports, log>>
    /\ BatchUnchanged /\ UNCHANGED pureVars

LocFront == ExtractFrontmatter(loc.original).front

\* lines 304-311
ProcessFile_NoData ==
    /\ pc = "parsed"
    /\ ~HasFrontmatterData(FrontGet(LocFront, "bibfile"), FrontGet(LocFront, "citekeys"))
    /\ loc' = [loc EXCEPT !.result = FALSE, !.msg = "nodata"]
    /\ pc' = "report"
    /\ UNCHANGED <<fs, md_paths, idx, changed, clock, bibCache, reports, log>>
    /\ BatchUnchanged /\ UNCHANGED pureVars

\* lines 313-315
ProcessFile_BibMissing ==
    /\ pc = "parsed"
    /\ HasFrontmatterData(FrontGet(LocFront, "bibfile"), FrontGet(LocFront, "citekeys"))
    /\ ~BibExists(FrontGet(LocFront, "bibfile"), bibOnDisk)
    /\ loc' = [loc EXCEPT !.result = FALSE, !.msg = "nobib"]
    /\ pc' = "report"
    /\ UNCHANGED <<fs, md_paths, idx, changed, clock, bibCache, reports, log>>
    /\ BatchUnchanged /\ UNCHANGED pureVars

ReachesCompute ==
    /\ pc = "parsed"
    /\ HasFrontmatterData(FrontGet(LocFront, "bibfile"), FrontGet(LocFront, "citekeys"))
    /\ BibExists(FrontGet(LocFront, "bibfile"), bibOnDisk)

\* lines 317-335, dry run
ProcessFile_DryRun ==
    /\ ReachesCompute
    /\ IsDryRun(dry_run)
    /\ \E now \in Timestamps :
         /\ ~Earlier(now, clock)
         /\ clock' = now
         /\ LET c == Computed(loc.path, loc.original, inline_style, now)
                upd == c.updated # loc.original \/ c.target # NoPath
            IN  loc' = [loc EXCEPT !.front_date = c.front_date, !.updated = c.updated,
                                   !.target = c.target, !.result = upd,
                                   !.msg = IF upd THEN "would" ELSE "nochange"]
    /\ bibCache' = bibCache \cup {FrontGet(LocFront, "bibfile")[1]}
    /\ pc' = "report"
    /\ UNCHANGED <<fs, md_paths, idx, changed, reports, log>>
    /\ BatchUnchanged /\ UNCHANGED pureVars

\* lines 317-328, not a dry run
ProcessFile_Compute ==
    /\ ReachesCompute
    /\ ~IsDryRun(dry_run)
    /\ \E now \in Timestamps :
         /\ ~Earlier(now, clock)
         /\ clock' = now
         /\ LET c == Computed(loc.path, loc.original, inline_style, now)
            IN  loc' = [loc EXCEPT !.front_date = c.front_date, !.updated = c.updated,
                                   !.target = c.target]
    /\ bibCache' = bibCache \cup {FrontGet(LocFront, "bibfile")[1]}
    /\ pc' = EffectOrder[1]
    /\ UNCHANGED <<fs, md_paths, idx, changed, reports, log>>
    /\ BatchUnchanged /\ UNCHANGED pureVars

\* line 338
ProcessFile_Backup ==
    /\ pc = "backup"
    /\ LET backup == MakeBackupPath(loc.path, loc.front_date) IN
         /\ fs' = CopyFile(fs, loc.path, backup)
         /\ loc' = [loc EXCEPT !.backup = backup]
         /\ log' = Append(log, [op |-> "backup", path |-> loc.path, id |-> loc.id, to |-> backup,
                                existed |-> backup \in DOMAIN fs])
    /\ pc' = StepAfter("backup")
    /\ UNCHANGED <<md_paths, idx, changed, clock, bibCache, reports>>
    /\ BatchUnchanged /\ UNCHANGED pureVars

\* lines 341-342
ProcessFile_Write ==
    /\ pc = "write"
    /\ fs' = WriteFile(fs, loc.path, loc.updated)
    /\ log' = Append(log, [op |-> "write", path |-> loc.path, id |-> loc.id, to |-> loc.path,
                           existed |-> TRUE])
    /\ pc' = StepAfter("write")
    /\ UNCHANGED <<md_paths, idx, changed, loc, clock, bibCache, reports>>
    /\ BatchUnchanged /\ UNCHANGED pureVars

\* lines 345-347
ProcessFile_RenameSkipped ==
    /\ pc = "rename"
    /\ loc.target # NoPath
    /\ ~RenameAllowed(fs, loc.target)
    /\ loc' = [loc EXCEPT !.result = TRUE, !.msg = "rename_skipped"]
    /\ pc' = "report"
    /\ UNCHANGED <<fs, md_paths, idx, changed, clock, bibCache, reports, log>>
    /\ BatchUnchanged /\ UNCHANGED pureVars

\* lines 345, 348-349
ProcessFile_Renamed ==
    /\ pc = "rename"
    /\ loc.target # NoPath
    /\ RenameAllowed(fs, loc.target)
    /\ fs' = RenameFile(fs, loc.path, loc.target)
    /\ log' = Append(log, [op |-> "rename", path |-> loc.path, id |-> loc.id,
                           to |-> loc.target,
                           existed |-> loc.target \in DOMAIN fs])
    /\ loc' = [loc EXCEPT !.result = TRUE, !.msg = "renamed"]
    /\ pc' = "report"
    /\ UNCHANGED <<md_paths, idx, changed, clock, bibCache, reports>>
    /\ BatchUnchanged /\ UNCHANGED pureVars

\* line 351
ProcessFile_NoRename ==
    /\ pc = "rename"
    /\ loc.target = NoPath
    /\ loc' = [loc EXCEPT !.result = TRUE, !.msg = "updated"]
    /\ pc' = "report"
    /\ UNCHANGED <<fs, md_paths, idx, changed, clock, bibCache, reports, log>>
    /\ BatchUnchanged /\ UNCHANGED pureVars

\* lines 380-387: print the line, count, go on with the next path
Main_Report ==
    /\ pc = "report"
    /\ reports' = Append(reports, [path |-> md_paths[idx], id |-> loc.id,
                                   updated |-> loc.result, msg |-> loc.msg])
    /\ changed' = IF loc.result /\ ~dry_run THEN changed + 1 ELSE changed
    /\ idx' = idx + 1
    /\ pc' = IF idx = Len(md_paths) THEN "done" ELSE "file"
    /\ UNCHANGED <<fs, md_paths, loc, clock, bibCache, log>>
    /\ BatchUnchanged /\ UNCHANGED pureVars

-----------------------------------------------------------------------------
(* The folders the run starts from *)

RootSamples ==
    {<<"alpha">>, <<"2020-01-01-", "alpha">>, <<"2025-09-28-", "alpha">>, <<"beta">>}

\* the file names a folder is drawn from
NameSamples ==
    {[root |-> r, ext |-> "md"] : r \in RootSamples}
    \cup {[root |-> <<"alpha">>, ext |-> "markdown"]}

FrontText(lines) == <<FM_MARK, NL>> \o JoinLines(lines) \o <<NL, FM_MARK>>

BibLine(style) == <<YamlLine(style, "bibfile", <<"refs.bib">>)>>

KeysLine == <<YamlLine("plain", "citekeys", <<"k1", "k2">>)>>

DateLine(d) == <<YamlLine("plain", "date", <<d>>)>>

\* the block a run at time t0 without --style-inline left in a note
OldBlock == GenerateReferenceBlock(<<"k1", "k2">>, SampleBibMap, FALSE, "t0")

TextSamples ==
    { \* frontmatter without bibfile and citekeys
      FrontText(<<<<YamlLine("plain", "title", <<"T">>)>>>>) \o <<NL, Tok("x"), NL>>,
      \* no date; the body holds the block of an earlier run
      FrontText(<<BibLine("plain"), KeysLine>>) \o <<NL, Tok("x"), NL, NL>> \o OldBlock,
      \* a date, no markers in the body
      FrontText(<<BibLine("plain"), KeysLine, DateLine("2020-01-01-")>>)
        \o <<NL, Tok("x"), NL>>,
      \* bibfile written as a double-quoted scalar
      FrontText(<<BibLine("dq"), KeysLine, DateLine("2025-09-28-")>>)
        \o <<NL, Tok("y")>>,
      \* a date that does not parse
      FrontText(<<BibLine("plain"), KeysLine, DateLine("someday")>>)
        \o <<NL, Tok("x"), NL, NL>> \o OldBlock
    }

\* the i-th file of the folder in name order gets id i
FileId(S, p) == 1 + Cardinality({q \in S : PathLess(q, p)})

Init ==
    /\ \E S \in SUBSET NameSamples :
         /\ Cardinality(S) <= MaxFiles
         /\ \E text \in [S -> TextSamples] :
              fs = [p \in S |-> [id |-> FileId(S, p), text |-> text[p]]]
    /\ fs0 = fs
    /\ bibOnDisk \in {{}, {"refs.bib"}}
    /\ dry_run \in BOOLEAN
    /\ inline_style \in BOOLEAN
    /\ md_paths = <<>>
    /\ idx = 0
    /\ changed = 0
    /\ pc = "start"
    /\ loc = NoLoc
    /\ clock = "t0"
    /\ bibCache = {}
    /\ reports = <<>>
    /\ log = <<>>
    /\ args = <<>>
    /\ ret = <<>>
    /\ ppc = "unused"

Next ==
    \/ Main_Enumerate
    \/ ProcessFile_Open
    \/ ProcessFile_NoData
    \/ ProcessFile_BibMissing
    \/ ProcessFile_DryRun
    \/ ProcessFile_Compute
    \/ ProcessFile_Backup
    \/ ProcessFile_Write
    \/ ProcessFile_RenameSkipped
    \/ ProcessFile_Renamed
    \/ ProcessFile_NoRename
    \/ Main_Report

Spec == Init /\ [][Next]_vars

-----------------------------------------------------------------------------
(* The pure functions, called on inputs drawn from bounded sets *)

\* no batch run is going on
BatchIdle ==
    /\ fs = <<>> /\ fs0 = <<>> /\ bibOnDisk = {} /\ dry_run = FALSE
    /\ inline_style = FALSE /\ md_paths = <<>> /\ idx = 0 /\ changed = 0
    /\ pc = "idle" /\ loc = NoLoc /\ clock = "t0" /\ bibCache = {}
    /\ reports = <<>> /\ log = <<>>

\* the bibliography indexes: some of the keys, each with an entry
BibMaps == UNION {[D -> EntryKinds] : D \in SUBSET Keys}

InitGen ==
    /\ BatchIdle
    /\ args \in [keys : BoundedSeq(Keys, MaxKeys), bib_map : BibMaps,
                  add_style : BOOLEAN, now : Timestamps]
    /\ ret = <<>>
    /\ ppc = "call"

\* block = generate_reference_block(keys, bib_map, add_style)
Gen_Call ==
    /\ ppc = "call"
    /\ ret' = GenerateReferenceBlock(args.keys, args.bib_map, args.add_style, args.now)
    /\ ppc' = "returned"
    /\ UNCHANGED args /\ UNCHANGED batchVars

NextGen == Gen_Call

SpecGen == InitGen /\ [][NextGen]_vars

BodyAlphabet == {BEGIN_MARK, END_MARK, NL, Tok("x"), Tok("y")}

\* generated blocks: all keys found; a missing key; an entry with a backslash
BlockSamples ==
    {GenerateReferenceBlock(<<"k1">>, [k \in {"k1"} |-> "plain"], FALSE, "t1"),
     GenerateReferenceBlock(<<"k1", "k2">>, [k \in {"k1"} |-> "plain"], TRUE, "t1"),
     GenerateReferenceBlock(<<"k1">>, [k \in {"k1"} |-> "tex"], FALSE, "t1")}

InitInsert ==
    /\ BatchIdle
    /\ args \in [body : BoundedSeq(BodyAlphabet, MaxBody), block : BlockSamples]
    /\ ret = <<>>
    /\ ppc = "call"

\* once = insert_or_replace_reference_block(body, block)
Insert_First ==
    /\ ppc = "call"
    /\ ret' = <<InsertOrReplaceReferenceBlock(args.body, args.block)>>
    /\ ppc' = "once"
    /\ UNCHANGED args /\ UNCHANGED batchVars

\* twice = insert_or_replace_reference_block(once, block)
Insert_Second ==
    /\ ppc = "once"
    /\ ret' = Append(ret, InsertOrReplaceReferenceBlock(ret[1], args.block))
    /\ ppc' = "twice"
    /\ UNCHANGED args /\ UNCHANGED batchVars

NextInsert == Insert_First \/ Insert_Second

SpecInsert == InitInsert /\ [][NextInsert]_vars

-----------------------------------------------------------------------------
(* Properties *)

\* the text the file with this id held when the run started
Fs0TextOfId(i) == fs0[CHOOSE p \in DOMAIN fs0 : fs0[p].id = i].text

LogIndexes(op) == {i \in 1..Len(log) : log[i].op = op}

Wrote(msg) == msg \in {"updated", "renamed", "rename_skipped"}

\* C1: for every file processed without --dry-run and not skipped, the backup
\* copy is made before the file is overwritten (so the backup holds the text
\* that was read), the overwrite is done before any rename, and a rename is
\* only performed onto a path where no file exists: when a file exists at the
\* target, the rename is skipped and the target is left as it was.
C1_EffectsOrdered ==
    /\ \A i \in 1..Len(log) :
         /\ log[i].op = "write" =>
               i > 1 /\ log[i - 1].op = "backup" /\ log[i - 1].path = log[i].path
         /\ log[i].op = "rename" =>
               /\ i > 1 /\ log[i - 1].op = "write" /\ log[i - 1].path = log[i].path
               /\ ~log[i].existed
    /\ pc = "rename" =>
         /\ loc.backup \in DOMAIN fs /\ fs[loc.backup].text = loc.original
         /\ fs[loc.path].text = loc.updated
    /\ (pc = "report" /\ Wrote(loc.msg)) =>
         /\ LogIndexes("backup") # {} /\ LogIndexes("write") # {}
         /\ \E i \in LogIndexes("backup") : \E j \in LogIndexes("write") :
               /\ i < j /\ log[i].path = loc.path /\ log[j].path = loc.path
               /\ \A k \in LogIndexes("rename") : log[k].path = loc.path => j < k
    /\ (pc = "report" /\ loc.msg = "rename_skipped") =>
         /\ loc.target \in DOMAIN loc.entry
         /\ fs[loc.target] = loc.entry[loc.target]
         /\ \A k \in LogIndexes("rename") : log[k].path # loc.path

\* a run in which one file was renamed and the rename of the next one was
\* skipped because its target exists
C1_Witness ==
    /\ pc = "report" /\ loc.msg = "rename_skipped"
    /\ LogIndexes("rename") # {}
    /\ Len(log) = 5

DryMessages == {"would", "nochange"}

SkipMessages == {"nodata", "nobib"}

\* C2 as stated: in dry-run mode nothing is written, copied or renamed, and
\* every file is reported as 'would update' or 'no changes'.
C2_DryRunOnlyWouldOrNoChange ==
    dry_run =>
        /\ fs = fs0 /\ log = <<>>
        /\ \A i \in 1..Len(reports) : reports[i].msg \in DryMessages

\* C2 amended: in dry-run mode nothing is written, copied or renamed: the
\* folder holds the same files with the same content throughout the run, and
\* every file is reported as 'would update', 'no changes', or skipped with its
\* reason (no bibfile or citekeys, bib file not found); no file is counted as
\* changed.
C2_DryRunNoEffects ==
    dry_run =>
        /\ fs = fs0 /\ log = <<>> /\ changed = 0
        /\ \A i \in 1..Len(reports) :
             reports[i].msg \in DryMessages \cup SkipMessages

\* a finished dry run that reported one file as 'would update' and skipped one
C2_Witness ==
    /\ dry_run /\ pc = "done" /\ Len(reports) = 2
    /\ \E i, j \in 1..Len(reports) :
         reports[i].msg = "would" /\ reports[j].msg \in SkipMessages

TextLacksData(text) ==
    LET front == ExtractFrontmatter(text).front
    IN  FrontGet(front, "bibfile") = <<>> \/ FrontGet(front, "citekeys") = <<>>

TextBibAbsent(text) ==
    LET front == ExtractFrontmatter(text).front
    IN  ~TextLacksData(text) /\ FrontGet(front, "bibfile")[1] \notin bibOnDisk

\* C3: a file whose frontmatter lacks bibfile or citekeys, or whose bib file
\* does not exist, is reported as skipped with its reason and result False; no
\* backup, overwrite or rename is made for it and the folder is as it was when
\* the call started; the run goes on and reports every enumerated file.
C3_SkipHasNoEffect ==
    /\ \A i \in 1..Len(reports) :
         LET r == reports[i] text == Fs0TextOfId(r.id) IN
         /\ TextLacksData(text) => r.msg = "nodata" /\ ~r.updated
         /\ TextBibAbsent(text) => r.msg = "nobib" /\ ~r.updated
         /\ r.msg \in SkipMessages =>
               /\ \A k \in 1..Len(log) : log[k].path # r.path /\ log[k].id # r.id
               /\ r.path \in DOMAIN fs /\ fs[r.path] = fs0[r.path]
    /\ (pc = "report" /\ loc.msg \in SkipMessages) => fs = loc.entry
    /\ pc = "done" => Len(reports) = Len(md_paths)
    /\ pc # "crashed"

\* a finished run whose first file was skipped and whose second was rewritten
C3_Witness ==
    /\ pc = "done" /\ Len(reports) = 2
    /\ reports[1].msg \in SkipMessages
    /\ reports[2].updated /\ Wrote(reports[2].msg)

\* C4: after a run without --dry-run, every file that was overwritten has its
\* own backup in the folder holding the text it had before, and there are as
\* many backup files as files written.
C4_OneBackupPerFile ==
    (pc = "done" /\ ~dry_run) =>
        /\ \A i \in LogIndexes("backup") :
             /\ log[i].to \in DOMAIN fs
             /\ fs[log[i].to].text = Fs0TextOfId(log[i].id)
        /\ Cardinality({log[i].to : i \in LogIndexes("backup")})
             = Cardinality(LogIndexes("write"))

\* the frontmatter block of a text: from the first "---" to the second
FrontBlockOf(text) ==
    IF StartsWith(text, <<FM_MARK>>) /\ FirstIndexAfter(text, FM_MARK, 1) # 0
    THEN SubSeq(text, 1, FirstIndexAfter(text, FM_MARK, 1))
    ELSE <<>>

BodyAfterFront(text) == SubSeq(text, Len(FrontBlockOf(text)) + 1, Len(text))

SpanStart(body) == FirstIndexAfter(body, BEGIN_MARK, 0)

SpanEnd(body) ==
    IF SpanStart(body) = 0 THEN 0 ELSE FirstIndexAfter(body, END_MARK, SpanStart(body))

HasSpan(body) == SpanEnd(body) # 0

BeforeSpan(body) == SubSeq(body, 1, SpanStart(body) - 1)

AfterSpan(body) == SubSeq(body, SpanEnd(body) + 1, Len(body))

\* body u differs from body o only between the markers, or only by a block
\* appended (after blank lines) when o has no marker-delimited region
OutsideSame(o, u) ==
    IF HasSpan(o)
    THEN HasSpan(u) /\ BeforeSpan(u) = BeforeSpan(o) /\ AfterSpan(u) = AfterSpan(o)
    ELSE \/ u = o
         \/ /\ StartsWith(u, o)
            /\ LET rest == Strip(SubSeq(u, Len(o) + 1, Len(u))) IN
               rest # <<>> /\ Head(rest) = BEGIN_MARK /\ rest[Len(rest)] = END_MARK

\* C5: the text written back differs from the text read only inside the
\* managed region: the frontmatter block and the body outside the markers are
\* the same as in the original file.
C5_OutsideRegionUntouched ==
    pc = "rename" =>
        /\ FrontBlockOf(fs[loc.path].text) = FrontBlockOf(loc.original)
        /\ OutsideSame(BodyAfterFront(loc.original), BodyAfterFront(fs[loc.path].text))

\* C6: inserting block B into the result of inserting B gives the same text
\* as inserting B once.
C6_InsertIdempotent == ppc = "twice" => ret[2] = ret[1]

\* s holds p as a contiguous piece
HasPiece(s, p) == \E i \in 0..(Len(s) - Len(p)) : SubSeq(s, i + 1, i + Len(p)) = p

\* C7: when both markers are present in the body, in any order and number,
\* the result holds the new block (trimmed), in place of the first
\* marker-delimited span, and the text before and after that span is unchanged.
C7_ReplacesFirstSpan ==
    (ppc = "once" /\ Contains(args.body, BEGIN_MARK) /\ Contains(args.body, END_MARK)) =>
        /\ HasPiece(ret[1], Strip(args.block))
        /\ HasSpan(args.body) =>
             ret[1] = BeforeSpan(args.body) \o Strip(args.block) \o AfterSpan(args.body)

\* the name <date>-<slug>.<ext> the frontmatter date of the text asks for, NoPath
\* when the date does not parse
WantedName(path, text) ==
    LET date == FrontGet(ExtractFrontmatter(text).front, "date")
        slug == IF Head(path.root) \in DatePieces THEN Tail(path.root) ELSE path.root
    IN  IF date # <<>> /\ date[1] \in DatePieces
        THEN [root |-> <<date[1]>> \o slug, ext |-> path.ext]
        ELSE NoPath

NewFile == [id |-> loc.id, text |-> loc.updated]

\* C8: when process_file has rewritten a file: if a file already existed at the
\* name <date>-<slug>.<ext>, that file is unchanged, the processed file is still
\* at its own name with the updated content, and the result is True; if no file
\* existed there, the processed file is now at that name; if the date does not
\* parse or the name is already the file's name, no rename is attempted.
C8_RenameOutcome ==
    (pc = "report" /\ Wrote(loc.msg)) =>
        LET want == WantedName(loc.path, loc.original) IN
        /\ loc.result
        /\ (want = NoPath \/ want = loc.path) =>
              /\ loc.msg = "updated"
              /\ fs[loc.path] = NewFile
              /\ LogIndexes("rename") \subseteq {k \in 1..Len(log) : log[k].path # loc.path}
              /\ DOMAIN fs = DOMAIN loc.entry \cup {loc.backup}
        /\ (want # NoPath /\ want # loc.path /\ want \in DOMAIN loc.entry) =>
              /\ loc.msg = "rename_skipped"
              /\ fs[want] = loc.entry[want]
              /\ fs[loc.path] = NewFile
              /\ DOMAIN fs = DOMAIN loc.entry \cup {loc.backup}
        /\ (want # NoPath /\ want # loc.path /\ want \notin DOMAIN loc.entry) =>
              /\ loc.msg = "renamed"
              /\ loc.path \notin DOMAIN fs
              /\ fs[want] = NewFile
              /\ DOMAIN fs = ((DOMAIN loc.entry \ {loc.path}) \cup {loc.backup, want})

\* a call that skipped the rename: the target existed before the call
C8_Witness ==
    /\ pc = "report" /\ loc.msg = "rename_skipped" /\ loc.result
    /\ loc.target \in DOMAIN loc.entry /\ loc.target # loc.path

IsEntry(tok) == tok.t = "entry"

IsNote(tok) == tok.t = "note"

\* the keys of the entry lines of a block, in the order of the lines
EntryKeysOf(block) ==
    LET es == SelectSeq(block, IsEntry) IN [i \in 1..Len(es) |-> es[i].a[1]]

KeyFound(k) == k \in DOMAIN args.bib_map

KeyNotFound(k) == k \notin DOMAIN args.bib_map

\* C9: the block holds one entry line per requested key that the index has,
\* in the order of the key list; it holds one notice line, after all entry
\* lines and as the last line, listing the keys the index lacks in the order of
\* the key list, if and only if there is such a key; so every requested key is
\* in an entry line or in the notice.
C9_KeysPartitioned ==
    ppc = "returned" =>
        LET found == SelectSeq(args.keys, KeyFound)
            missing == SelectSeq(args.keys, KeyNotFound)
            notes == SelectSeq(ret, IsNote)
        IN  /\ EntryKeysOf(ret) = found
            /\ notes = IF missing = <<>> THEN <<>>
                       ELSE <<[t |-> "note", a |-> missing]>>
            /\ \A i \in 1..Len(ret) :
                 /\ (IsEntry(ret[i]) \/ IsNote(ret[i])) => ret[i - 1] = NL
                 /\ IsEntry(ret[i]) =>
                       \/ ret[i + 1] = NL
                       \/ ret[i + 1] = ESC /\ ret[i + 2] = NL
                 /\ IsNote(ret[i]) =>
                       /\ SubSeq(ret, i + 1, Len(ret)) = <<NL, NL, END_MARK, NL>>
                       /\ \A j \in 1..Len(ret) : IsEntry(ret[j]) => j < i
            /\ \A n \in 1..Len(args.keys) :
                 \/ \E i \in 1..Len(ret) : IsEntry(ret[i]) /\ ret[i].a[1] = args.keys[n]
                 \/ \E i \in 1..Len(ret) :
                      IsNote(ret[i]) /\ \E m \in 1..Len(ret[i].a) : ret[i].a[m] = args.keys[n]

\* a block for two keys, the first one missing and the second one found
C9_Witness ==
    /\ ppc = "returned" /\ Len(args.keys) = 2
    /\ args.keys[1] \notin DOMAIN args.bib_map
    /\ args.keys[2] \in DOMAIN args.bib_map
    /\ Len(SelectSeq(ret, IsNote)) = 1 /\ Len(SelectSeq(ret, IsEntry)) = 1

MarkdownOf(files) == {p \in DOMAIN files : p.ext \in {"md", "markdown"}}

\* C10: the list of paths is the Markdown files of the folder as it was at
\* the start, each once, in sorted order; the files are processed in that
\* order; every path is there when its turn comes (the run never stops on a
\* missing path); no file is processed twice; a finished run has processed
\* every enumerated path.
C10_EachFileOnceInOrder ==
    /\ pc # "crashed"
    /\ pc # "start" =>
         /\ \A i, j \in 1..Len(md_paths) : i < j => PathLess(md_paths[i], md_paths[j])
         /\ {md_paths[i] : i \in 1..Len(md_paths)} = MarkdownOf(fs0)
         /\ Len(reports) <= Len(md_paths)
         /\ \A i \in 1..Len(reports) :
              reports[i].path = md_paths[i] /\ reports[i].id = fs0[md_paths[i]].id
         /\ \A i, j \in 1..Len(reports) : i # j => reports[i].id # reports[j].id
         /\ pc \notin {"file", "done"} =>
              /\ loc.path = md_paths[idx] /\ idx = Len(reports) + 1
              /\ \A i \in 1..Len(reports) : reports[i].id # loc.id
         /\ pc = "done" => Len(reports) = Len(md_paths)

\* the second file is being read after the first one was renamed
C10_Witness ==
    /\ pc = "parsed" /\ idx = 2
    /\ reports[1].msg = "renamed"
    /\ reports[1].path \notin DOMAIN fs

====
